---- MODULE Spec2Model ----
(***************************************************************************)
(* scripts/postgres_to_sqlite.py: a PostgreSQL dump is read whole, an      *)
(* ordered table of case-insensitive regular-expression substitutions is   *)
(* applied to the whole text, the lines that start with an allowed keyword *)
(* are kept, and the kept lines are written to the output file.            *)
(*                                                                         *)
(* Text is a sequence of one-character strings.                            *)
(***************************************************************************)
EXTENDS Integers, Sequences, FiniteSets, TLC

(***************************************************************************)
(* Bounds of the model.                                                    *)
(***************************************************************************)
\* the input file holds at most MaxLines lines of LinePool
MaxLines == 2
\* the program is started with 0..MaxArgs positional arguments
MaxArgs == 3

(***************************************************************************)
(* Characters.                                                             *)
(***************************************************************************)
NL == "\n"

LowerLetters == <<"a","b","c","d","e","f","g","h","i","j","k","l","m","n","o","p","q","r","s","t","u","v","w","x","y","z">>
UpperLetters == <<"A","B","C","D","E","F","G","H","I","J","K","L","M","N","O","P","Q","R","S","T","U","V","W","X","Y","Z">>

Range(s) == {s[i] : i \in 1..Len(s)}

\* str.upper() on one character (line 58), which is also how re.IGNORECASE
\* compares two characters (line 46)
UpperMap == [c \in Range(LowerLetters) |->
               UpperLetters[CHOOSE i \in 1..26 : LowerLetters[i] = c]]

ToUpper(c) == IF c \in DOMAIN UpperMap THEN UpperMap[c] ELSE c

UpperStr(s) == [i \in 1..Len(s) |-> ToUpper(s[i])]

\* \d
Digits == Range(<<"0","1","2","3","4","5","6","7","8","9">>)

\* what str.strip() removes
Whitespace == {" ", "\t", "\r", "\n", "\f"}

(***************************************************************************)
(* The regular expressions of the table, as sequences of pieces:           *)
(*   lit    a literal, compared case-insensitively                         *)
(*   lazy   .*?     greedy  .*     (the dot matches all but a newline)     *)
(*   digits \d+     opt     an optional literal, taken when possible       *)
(***************************************************************************)
Lit(s) == [k |-> "lit", s |-> s]
Lazy == [k |-> "lazy", s |-> <<>>]
Greedy == [k |-> "greedy", s |-> <<>>]
DigitRun == [k |-> "digits", s |-> <<>>]
Opt(s) == [k |-> "opt", s |-> s]

\* the replacement is a literal text, or (rule j) the literal `pre`, group 1
\* and the literal `post`
Text(s) == [k |-> "text", pre |-> s, post |-> <<>>]
Group1(pre, post) == [k |-> "group1", pre |-> pre, post |-> post]

Rule(pat, rep) == [pat |-> pat, rep |-> rep]

\* lines 17-21
RemoveStatements == <<
    Rule(<<Lit(<<"-","-">>), Greedy, Lit(<<NL>>)>>, Text(<<>>)),
    Rule(<<Lit(<<"S","E","T"," ">>), Lazy, Lit(<<";">>)>>, Text(<<>>)),
    Rule(<<Lit(<<"S","E","L","E","C","T"," ","p","g","_","c","a","t","a","l","o","g",".">>), Lazy, Lit(<<";">>)>>, Text(<<>>)),
    Rule(<<Lit(<<"C","R","E","A","T","E"," ","E","X","T","E","N","S","I","O","N">>), Lazy, Lit(<<";">>)>>, Text(<<>>)),
    Rule(<<Lit(<<"C","O","M","M","E","N","T"," ","O","N">>), Lazy, Lit(<<";">>)>>, Text(<<>>)) >>

\* lines 24-34
DataTypes == <<
    Rule(<<Lit(<<"S","E","R","I","A","L"," ","P","R","I","M","A","R","Y"," ","K","E","Y">>)>>, Text(<<"I","N","T","E","G","E","R"," ","P","R","I","M","A","R","Y"," ","K","E","Y"," ","A","U","T","O","I","N","C","R","E","M","E","N","T">>)),
    Rule(<<Lit(<<"S","E","R","I","A","L">>)>>, Text(<<"I","N","T","E","G","E","R">>)),
    Rule(<<Lit(<<"B","I","G","S","E","R","I","A","L">>)>>, Text(<<"I","N","T","E","G","E","R">>)),
    Rule(<<Lit(<<"T","E","X","T">>)>>, Text(<<"T","E","X","T">>)),
    Rule(<<Lit(<<"V","A","R","C","H","A","R","(">>), DigitRun, Lit(<<")">>)>>, Text(<<"T","E","X","T">>)),
    Rule(<<Lit(<<"T","I","M","E","S","T","A","M","P"," ","W","I","T","H"," ","T","I","M","E"," ","Z","O","N","E">>)>>, Text(<<"T","E","X","T">>)),
    Rule(<<Lit(<<"T","I","M","E","S","T","A","M","P"," ","W","I","T","H","O","U","T"," ","T","I","M","E"," ","Z","O","N","E">>)>>, Text(<<"T","E","X","T">>)),
    Rule(<<Lit(<<"T","I","M","E","S","T","A","M","P">>)>>, Text(<<"T","E","X","T">>)),
    Rule(<<Lit(<<"B","O","O","L","E","A","N">>)>>, Text(<<"I","N","T","E","G","E","R">>)),
    Rule(<<Lit(<<"T","R","U","E">>)>>, Text(<<"1">>)),
    Rule(<<Lit(<<"F","A","L","S","E">>)>>, Text(<<"0">>)) >>

\* lines 37-39
RemoveSyntax == <<
    Rule(<<Lit(<<"O","N","L","Y"," ">>)>>, Text(<<>>)),
    Rule(<<Lit(<<"p","u","b","l","i","c",".">>)>>, Text(<<>>)),
    Rule(<<Lit(<<"C","O","N","S","T","R","A","I","N","T">>), Lazy, Lit(<<"C","H","E","C","K">>), Lazy, Lit(<<")">>), Opt(<<",">>)>>,
         Text(<<>>)) >>

\* line 42
FixInsert == <<
    Rule(<<Lit(<<"I","N","S","E","R","T"," ","I","N","T","O"," ">>), Lazy, Lit(<<" ","V","A","L","U","E","S">>)>>,
         Group1(<<"I","N","S","E","R","T"," ","I","N","T","O"," ">>, <<" ","V","A","L","U","E","S">>)) >>

\* (variant) the BIGSERIAL rule ahead of the SERIAL rule
conversionsBigSerialFirst ==
    RemoveStatements
    \o <<DataTypes[1], DataTypes[3], DataTypes[2]>> \o SubSeq(DataTypes, 4, Len(DataTypes))
    \o RemoveSyntax \o FixInsert

\* the table of lines 15-43, in its order
conversions == RemoveStatements \o DataTypes \o RemoveSyntax \o FixInsert

NumRules == Len(conversions)

\* the places of the rules the properties name
SerialRule == CHOOSE r \in 1..NumRules : conversions[r].pat = <<Lit(<<"S","E","R","I","A","L">>)>>
BigSerialRule == CHOOSE r \in 1..NumRules : conversions[r].pat = <<Lit(<<"B","I","G","S","E","R","I","A","L">>)>>

(***************************************************************************)
(* Matching: the position after the first match of pieces k.. of pattern p *)
(* that starts at position i of s, in the order a backtracking matcher     *)
(* tries them; 0 when there is none.  No pattern matches the empty text.   *)
(***************************************************************************)
\* (variant) the bound is one short: no literal matches at the end of the text
MatchLitShort(s, i, l) ==
    /\ i + Len(l) <= Len(s)
    /\ \A j \in 1..Len(l) : ToUpper(s[i + j - 1]) = ToUpper(l[j])

MatchLit(s, i, l) ==
    /\ i + Len(l) - 1 <= Len(s)
    /\ \A j \in 1..Len(l) : ToUpper(s[i + j - 1]) = ToUpper(l[j])

\* the least and the greatest member of a non-empty set of positions
Least(S) == CHOOSE i \in S : \A j \in S : i <= j
Greatest(S) == CHOOSE i \in S : \A j \in S : i >= j

\* (variant) the dot matches the newline too, as under re.DOTALL
DotRunEndAll(s, j) == Len(s) + 1

\* the position after the run of characters the dot matches (all but the
\* newline) that starts at j
DotRunEnd(s, j) ==
    Least({e \in j..(Len(s) + 1) : e = Len(s) + 1 \/ s[e] = NL})

\* the position after the run of digits that starts at j
DigitRunEnd(s, j) ==
    Least({e \in j..(Len(s) + 1) : e = Len(s) + 1 \/ s[e] \notin Digits})

RECURSIVE MatchFrom(_, _, _, _)

\* .*? at j followed by pieces k+1..: the shortest run after which they match
LazyFrom(s, j, p, k) ==
    LET ends == {e \in j..DotRunEnd(s, j) : MatchFrom(s, e, p, k + 1) # 0}
    IN  IF ends = {} THEN 0 ELSE MatchFrom(s, Least(ends), p, k + 1)

\* .* at j followed by pieces k+1..: the longest run after which they match
GreedyFrom(s, j, p, k) ==
    LET ends == {e \in j..DotRunEnd(s, j) : MatchFrom(s, e, p, k + 1) # 0}
    IN  IF ends = {} THEN 0 ELSE MatchFrom(s, Greatest(ends), p, k + 1)

\* (variant) \d in place of \d+: one digit
DigitsFromOne(s, j, p, k) ==
    IF j <= Len(s) /\ s[j] \in Digits THEN MatchFrom(s, j + 1, p, k + 1) ELSE 0

\* \d+ at j followed by pieces k+1..: the longest run of at least one digit
DigitsFrom(s, j, p, k) ==
    LET ends == {e \in (j + 1)..DigitRunEnd(s, j) : MatchFrom(s, e, p, k + 1) # 0}
    IN  IF ends = {} THEN 0 ELSE MatchFrom(s, Greatest(ends), p, k + 1)

MatchFrom(s, i, p, k) ==
    IF k > Len(p) THEN i
    ELSE CASE p[k].k = "lit" ->
                IF MatchLit(s, i, p[k].s)
                THEN MatchFrom(s, i + Len(p[k].s), p, k + 1) ELSE 0
           [] p[k].k = "lazy" -> LazyFrom(s, i, p, k)
           [] p[k].k = "greedy" -> GreedyFrom(s, i, p, k)
           [] p[k].k = "digits" -> DigitsFrom(s, i, p, k)
           [] p[k].k = "opt" ->
                IF MatchLit(s, i, p[k].s)
                THEN LET e == MatchFrom(s, i + Len(p[k].s), p, k + 1)
                     IN  IF e # 0 THEN e ELSE MatchFrom(s, i, p, k + 1)
                ELSE MatchFrom(s, i, p, k + 1)

\* (variant) the replacement without its group, as when "\1" is not written in
\* a raw string
ExpandNoGroup(rule, s, i, e) == rule.rep.pre \o rule.rep.post

\* what the match s[i..e-1] of the rule is replaced by; group 1 of rule j is the
\* match less the texts of the pattern's first and last literal
Expand(rule, s, i, e) ==
    IF rule.rep.k = "text" THEN rule.rep.pre
    ELSE rule.rep.pre
         \o SubSeq(s, i + Len(rule.pat[1].s), e - 1 - Len(rule.pat[Len(rule.pat)].s))
         \o rule.rep.post

\* re.sub(pattern, replacement, s) from position pos on: the text up to the
\* leftmost match, its replacement, then on from its end
RECURSIVE SubFrom(_, _, _)
SubFrom(s, pos, rule) ==
    LET starts == {i \in pos..Len(s) : MatchFrom(s, i, rule.pat, 1) # 0}
    IN  IF starts = {} THEN SubSeq(s, pos, Len(s))
        ELSE LET i == Least(starts)
                 e == MatchFrom(s, i, rule.pat, 1)
             IN  SubSeq(s, pos, i - 1) \o Expand(rule, s, i, e) \o SubFrom(s, e, rule)

ReSub(rule, s) == SubFrom(s, 1, rule)

\* does the pattern match anywhere in s (re.search)
Matches(pat, s) == \E i \in 1..Len(s) : MatchFrom(s, i, pat, 1) # 0

\* the content after the first n rules of the table
RECURSIVE Rewrite(_, _)
Rewrite(s, n) == IF n = 0 THEN s ELSE ReSub(conversions[n], Rewrite(s, n - 1))

(***************************************************************************)
(* Lines.                                                                  *)
(***************************************************************************)
\* content.split('\n'): one line more than there are newlines
Split(s) ==
    LET nls == {i \in 1..Len(s) : s[i] = NL}
        \* the place of the k-th newline; 0 and Len(s) + 1 bound the text
        nl(k) == IF k = 0 THEN 0
                 ELSE IF k > Cardinality(nls) THEN Len(s) + 1
                 ELSE CHOOSE i \in nls : Cardinality({j \in nls : j < i}) = k - 1
    IN  [k \in 1..(Cardinality(nls) + 1) |-> SubSeq(s, nl(k - 1) + 1, nl(k) - 1)]

\* '\n'.join(lines)
RECURSIVE Join(_)
Join(lines) ==
    IF lines = <<>> THEN <<>>
    ELSE IF Len(lines) = 1 THEN lines[1]
    ELSE lines[1] \o <<NL>> \o Join(Tail(lines))

\* (variant) at most one whitespace character is removed at either end
StripOne(s) ==
    LET a == IF s # <<>> /\ s[1] \in Whitespace THEN 2 ELSE 1
        b == IF s # <<>> /\ s[Len(s)] \in Whitespace THEN Len(s) - 1 ELSE Len(s)
    IN  SubSeq(s, a, b)

\* line.strip(): from the first to the last character that is not whitespace
Strip(s) ==
    LET \* how many whitespace characters s starts with, and ends with
        lead == Least({k \in 0..Len(s) : k = Len(s) \/ s[k + 1] \notin Whitespace})
        trail == Least({k \in 0..Len(s) : k = Len(s) \/ s[Len(s) - k] \notin Whitespace})
    IN  SubSeq(s, lead + 1, Len(s) - trail)

\* what open(path, 'r').read() returns for a file that holds s: text mode
\* turns each "\r\n" and each other "\r" into "\n"
RECURSIVE ReadFrom(_, _)
ReadFrom(s, pos) ==
    LET crs == {i \in pos..Len(s) : s[i] = "\r"}
    IN  IF crs = {} THEN SubSeq(s, pos, Len(s))
        ELSE LET i == Least(crs)
             IN  SubSeq(s, pos, i - 1)
                 \o (IF i < Len(s) /\ s[i + 1] = NL THEN <<>> ELSE <<NL>>)
                 \o ReadFrom(s, i + 1)

ReadText(s) == ReadFrom(s, 1)

\* s.startswith(prefix)
StartsWith(s, prefix) ==
    /\ Len(prefix) <= Len(s)
    /\ SubSeq(s, 1, Len(prefix)) = prefix

AllowedKeywords == << <<"C","R","E","A","T","E"," ","T","A","B","L","E">>, <<"I","N","S","E","R","T"," ","I","N","T","O">>, <<"C","R","E","A","T","E"," ","I","N","D","E","X">> >>

\* (variant) the keyword is compared without line.upper()
KeepLineCaseSensitive(line) ==
    /\ ~(line = <<>> \/ StartsWith(line, <<"-","-">>))
    /\ \E c \in 1..Len(AllowedKeywords) : StartsWith(line, AllowedKeywords[c])

\* the test of lines 54-58 on a stripped line
KeepLine(line) ==
    /\ ~(line = <<>> \/ StartsWith(line, <<"-","-">>))
    /\ LET upper == UpperStr(line)
       IN  \E c \in 1..Len(AllowedKeywords) : StartsWith(upper, AllowedKeywords[c])

\* (variant) the line is appended as it was before line.strip()
FilterLinesUnstripped(content) ==
    LET Test(l) == KeepLine(Strip(l))
    IN  SelectSeq(Split(content), Test)

\* lines 49-59: the stripped lines of the content that pass the test, in order
FilterLines(content) ==
    LET lines == Split(content)
        stripped == [i \in 1..Len(lines) |-> Strip(lines[i])]
    IN  SelectSeq(stripped, KeepLine)

(***************************************************************************)
(* The files the runs are started on.                                      *)
(***************************************************************************)
CreateFoo == <<"C","R","E","A","T","E"," ","T","A","B","L","E"," ","f","o","o"," ","(","i","d"," ","S","E","R","I","A","L"," ","P","R","I","M","A","R","Y"," ","K","E","Y",","," ","n","a","m","e"," ","V","A","R","C","H","A","R","(","5","0",")",")",";">>
CommentLine == <<"-","-"," ","c","o","m","m","e","n","t">>
InsertTrue == <<"I","N","S","E","R","T"," ","I","N","T","O"," ","t"," ","V","A","L","U","E","S"," ","(","1",","," ","T","R","U","E",")",";">>
SetLine == <<"S","E","T"," ","s","t","a","t","e","m","e","n","t","_","t","i","m","e","o","u","t"," ","="," ","0",";">>
SetvalLine == <<"S","E","L","E","C","T"," ","p","g","_","c","a","t","a","l","o","g",".","s","e","t","v","a","l","(","'","s","'",","," ","1",","," ","t","r","u","e",")",";">>
LowerCreate == <<"c","r","e","a","t","e"," ","t","a","b","l","e"," ","t"," ","(","a"," ","t","e","x","t",")",";">>
CreateBig == <<"C","R","E","A","T","E"," ","T","A","B","L","E"," ","b"," ","(","n"," ","B","I","G","S","E","R","I","A","L",")",";">>
IndexThenComment == <<" ","C","R","E","A","T","E"," ","I","N","D","E","X"," ","i"," ","O","N"," ","t"," ","(","a",")",";"," "," ","-","-"," ","c">>
LowerInsert == <<"i","n","s","e","r","t"," ","i","n","t","o"," ","u"," ","v","a","l","u","e","s"," ","(","f","a","l","s","e",")",";">>
AlterThenComment == <<"A","L","T","E","R"," ","T","A","B","L","E"," ","t"," ","-","-"," ","c">>

LinePool == {CreateFoo, CommentLine, InsertTrue, SetLine, SetvalLine, LowerCreate,
             CreateBig, IndexThenComment, LowerInsert, AlterThenComment}

LineSeqs == UNION {[1..n -> LinePool] : n \in 0..MaxLines}

\* how the file ends: after its last line, with a newline, with "\r\n"
Endings == {<<>>, <<NL>>, <<"\r", NL>>}

\* the lines joined by newlines, and the ending
FileText(ls, end) == Join(ls) \o end

Inputs == {FileText(ls, end) : ls \in LineSeqs, end \in Endings}

\* what an output file left by an earlier run holds
OldData == <<"o","l","d">>

NoFile == [exists |-> FALSE, data |-> <<>>]
File(d) == [exists |-> TRUE, data |-> d]

(***************************************************************************)
(* The state of a run.                                                     *)
(***************************************************************************)
VARIABLES
    argc,          \* number of positional arguments: len(sys.argv) - 1
    infile,        \* what the file at the input path holds
    outfile,       \* the file at the output path
    pc,            \* the statement the run is at
    content,       \* the local variable content
    ruleIdx,       \* the place of the loop of line 45 in conversions
    sqlite_lines,  \* the local variable sqlite_lines
    stdout,        \* what has been printed
    io,            \* the calls made on the two files, in order
    exitCode       \* the exit status once the run is over, -1 before

vars == <<argc, infile, outfile, pc, content, ruleIdx, sqlite_lines, stdout, io, exitCode>>

Init ==
    /\ argc \in 0..MaxArgs
    /\ infile \in Inputs
    /\ outfile \in {NoFile, File(OldData)}
    /\ pc = "main"
    /\ content = <<>>
    /\ ruleIdx = 0
    /\ sqlite_lines = <<>>
    /\ stdout = <<>>
    /\ io = <<>>
    /\ exitCode = -1

\* lines 67-69
Usage ==
    /\ pc = "main"
    /\ argc + 1 # 3
    /\ stdout' = Append(stdout, "usage")
    /\ exitCode' = 1
    /\ pc' = "exited"
    /\ UNCHANGED <<argc, infile, outfile, content, ruleIdx, sqlite_lines, io>>

\* (variant) the argument count is not looked at
MainNoArgCheck ==
    /\ pc = "main"
    /\ pc' = "start"
    /\ UNCHANGED <<argc, infile, outfile, content, ruleIdx, sqlite_lines, stdout, exitCode, io>>

\* lines 67, 71
Main ==
    /\ pc = "main"
    /\ ~(argc + 1 # 3)
    /\ pc' = "start"
    /\ UNCHANGED <<argc, infile, outfile, content, ruleIdx, sqlite_lines, stdout, exitCode, io>>

\* line 9
PrintStart ==
    /\ pc = "start"
    /\ stdout' = Append(stdout, "converting")
    /\ pc' = "read"
    /\ UNCHANGED <<argc, infile, outfile, content, ruleIdx, sqlite_lines, exitCode, io>>

\* lines 11-12, the file is read
ReadInput ==
    /\ pc = "read"
    /\ content' = ReadText(infile)
    /\ ruleIdx' = 1
    /\ pc' = "convert"
    /\ io' = Append(io, "read")
    /\ UNCHANGED <<argc, infile, outfile, sqlite_lines, stdout, exitCode>>

\* (variant) the output file is opened for writing ahead of the input file
ReadInputFailsOutputOpen ==
    /\ pc = "read"
    /\ pc' = "read_failed"
    /\ exitCode' = 1
    /\ outfile' = File(<<>>)
    /\ io' = io \o <<"open_w", "read_error">>
    /\ UNCHANGED <<argc, infile, content, ruleIdx, sqlite_lines, stdout>>

\* lines 11-12, open or read raises (no such file, no permission): the
\* exception is not caught and the interpreter exits with status 1
ReadInputFails ==
    /\ pc = "read"
    /\ pc' = "read_failed"
    /\ exitCode' = 1
    /\ io' = Append(io, "read_error")
    /\ UNCHANGED <<argc, infile, outfile, content, ruleIdx, sqlite_lines, stdout>>

\* lines 45-46, one turn of the loop
ApplyConversion ==
    /\ pc = "convert"
    /\ content' = ReSub(conversions[ruleIdx], content)
    /\ IF ruleIdx < NumRules
       THEN ruleIdx' = ruleIdx + 1 /\ pc' = "convert"
       ELSE ruleIdx' = ruleIdx /\ pc' = "filter"
    /\ UNCHANGED <<argc, infile, outfile, sqlite_lines, stdout, exitCode, io>>

\* lines 49-59
Filter ==
    /\ pc = "filter"
    /\ sqlite_lines' = FilterLines(content)
    /\ pc' = "open"
    /\ UNCHANGED <<argc, infile, outfile, content, ruleIdx, stdout, exitCode, io>>

\* line 61: opening for writing creates the file or truncates it
OpenOutput ==
    /\ pc = "open"
    /\ outfile' = File(<<>>)
    /\ pc' = "write"
    /\ io' = Append(io, "open_w")
    /\ UNCHANGED <<argc, infile, content, ruleIdx, sqlite_lines, stdout, exitCode>>

\* line 61, open raises
OpenOutputFails ==
    /\ pc = "open"
    /\ pc' = "open_failed"
    /\ exitCode' = 1
    /\ io' = Append(io, "open_w_error")
    /\ UNCHANGED <<argc, infile, outfile, content, ruleIdx, sqlite_lines, stdout>>

\* line 62, and the file is closed
WriteOutput ==
    /\ pc = "write"
    /\ outfile' = File(Join(sqlite_lines))
    /\ pc' = "complete"
    /\ io' = Append(io, "write")
    /\ UNCHANGED <<argc, infile, content, ruleIdx, sqlite_lines, stdout, exitCode>>

\* line 62, write raises: the file stays as far as it was written
WriteOutputFails ==
    /\ pc = "write"
    /\ pc' = "write_failed"
    /\ exitCode' = 1
    /\ io' = Append(io, "write_error")
    /\ UNCHANGED <<argc, infile, outfile, content, ruleIdx, sqlite_lines, stdout>>

\* line 64, and the interpreter exits
PrintComplete ==
    /\ pc = "complete"
    /\ stdout' = Append(stdout, "complete")
    /\ exitCode' = 0
    /\ pc' = "exited"
    /\ UNCHANGED <<argc, infile, outfile, content, ruleIdx, sqlite_lines, io>>

Next ==
    \/ Usage
    \/ Main
    \/ PrintStart
    \/ ReadInput
    \/ ReadInputFails
    \/ ApplyConversion
    \/ Filter
    \/ OpenOutput
    \/ OpenOutputFails
    \/ WriteOutput
    \/ WriteOutputFails
    \/ PrintComplete

Spec == Init /\ [][Next]_vars

(***************************************************************************)
(* What the properties speak of.                                           *)
(***************************************************************************)
\* the run went through and exited with status 0
Done == pc = "exited" /\ exitCode = 0

\* the lines of the input as the run reads them
InLines == Split(ReadText(infile))

\* the lines of the output file; an empty file has none
OutLines == IF outfile.data = <<>> THEN <<>> ELSE Split(outfile.data)

\* the output file as the run found it
Untouched == outfile \in {NoFile, File(OldData)}

IsIn(x, seq) == \E i \in 1..Len(seq) : seq[i] = x

Contains(s, sub) ==
    \E i \in 1..(Len(s) - Len(sub) + 1) : SubSeq(s, i, i + Len(sub) - 1) = sub

\* the input's lines are ls, with or without an empty line after them (the
\* file ends in a newline)
InputIs(ls) == InLines = ls \/ InLines = Append(ls, <<>>)

\* the whole conversion of a text
Convert(t) == Join(FilterLines(Rewrite(t, NumRules)))

(***************************************************************************)
(* C1. A run whose read of the input fails ends there with exit status 1   *)
(* and has made no call on the output file, which is as the run found it;  *)
(* and in every run each call on the output file comes after the read of   *)
(* the input.                                                              *)
(***************************************************************************)
C1_ReadFailsBeforeOutput ==
    /\ IsIn("read_error", io) =>
          /\ pc = "read_failed"
          /\ exitCode = 1
          /\ ~ENABLED Next
          /\ io = <<"read_error">>
          /\ Untouched
    /\ \A i \in 1..Len(io) :
          io[i] \in {"open_w", "open_w_error", "write", "write_error"}
             => \E j \in 1..(i - 1) : io[j] = "read"
    /\ ~Untouched => IsIn("read", io)

C1_Witness == pc = "read_failed" /\ outfile = File(OldData)

(***************************************************************************)
(* C2. Started with other than two positional arguments, the run prints    *)
(* the usage message and exits with status 1, and does nothing else: no    *)
(* start message, no call on either file, the output file as it was.       *)
(***************************************************************************)
C2_UsageOnly ==
    argc # 2 =>
       /\ pc \in {"main", "exited"}
       /\ io = <<>>
       /\ Untouched
       /\ content = <<>> /\ sqlite_lines = <<>>
       /\ pc = "main" => stdout = <<>> /\ exitCode = -1
       /\ pc = "exited" => stdout = <<"usage">> /\ exitCode = 1 /\ ~ENABLED Next

C2_Witness == argc # 2 /\ pc = "exited" /\ outfile = File(OldData)

C3_Allowed(l) ==
    /\ l # <<>>
    /\ l[1] \notin Whitespace /\ l[Len(l)] \notin Whitespace
    /\ ~StartsWith(l, <<"-","-">>)
    /\ \/ StartsWith(UpperStr(l), <<"C","R","E","A","T","E"," ","T","A","B","L","E">>)
       \/ StartsWith(UpperStr(l), <<"I","N","S","E","R","T"," ","I","N","T","O">>)
       \/ StartsWith(UpperStr(l), <<"C","R","E","A","T","E"," ","I","N","D","E","X">>)

(***************************************************************************)
(* C3. Every line of the written output is non-empty, has no whitespace at *)
(* either end, does not start with "--" and starts, upper-cased, with      *)
(* CREATE TABLE, INSERT INTO or CREATE INDEX; the output is exactly the    *)
(* stripped lines of the rewritten content of which that is true, in their *)
(* order, joined by single newlines.                                       *)
(***************************************************************************)
C3_OutputIsAllowList ==
    Done =>
       LET lines == Split(content)
           stripped == [i \in 1..Len(lines) |-> Strip(lines[i])]
       IN  /\ \A i \in 1..Len(OutLines) : C3_Allowed(OutLines[i])
           /\ OutLines = SelectSeq(stripped, C3_Allowed)
           /\ outfile.data = Join(OutLines)

\* a line is dropped, and a line is kept less the whitespace around it
C3_Witness ==
    /\ Done
    /\ Len(OutLines) >= 1
    /\ Len(Split(content)) > Len(OutLines)
    /\ \E i \in 1..Len(Split(content)) :
          Split(content)[i] # Strip(Split(content)[i]) /\ IsIn(Strip(Split(content)[i]), OutLines)

(***************************************************************************)
(* C4 as stated. Whatever the other lines of the input, an input with the  *)
(* line CREATE TABLE foo (id SERIAL PRIMARY KEY, name VARCHAR(50)); gives  *)
(* an output with the line                                                 *)
(* CREATE TABLE foo (id INTEGER PRIMARY KEY AUTOINCREMENT, name TEXT));    *)
(***************************************************************************)
C4_Original ==
    (Done /\ IsIn(CreateFoo, InLines)) =>
       IsIn(<<"C","R","E","A","T","E"," ","T","A","B","L","E"," ","f","o","o"," ","(","i","d"," ","I","N","T","E","G","E","R"," ","P","R","I","M","A","R","Y"," ","K","E","Y"," ","A","U","T","O","I","N","C","R","E","M","E","N","T",","," ","n","a","m","e"," ","T","E","X","T",")",")",";">>, OutLines)

C4_NoCommentBefore ==
    \E i \in 1..Len(InLines) :
       /\ InLines[i] = CreateFoo
       /\ \A j \in 1..(i - 1) : ~Contains(InLines[j], <<"-","-">>)

(***************************************************************************)
(* C4 as amended. An input with that line, none of whose earlier lines has *)
(* a "--", gives an output with the line                                   *)
(* CREATE TABLE foo (id INTEGER PRIMARY KEY AUTOINCREMENT, name TEXT);     *)
(***************************************************************************)
C4_Amended ==
    (Done /\ C4_NoCommentBefore) =>
       IsIn(<<"C","R","E","A","T","E"," ","T","A","B","L","E"," ","f","o","o"," ","(","i","d"," ","I","N","T","E","G","E","R"," ","P","R","I","M","A","R","Y"," ","K","E","Y"," ","A","U","T","O","I","N","C","R","E","M","E","N","T",","," ","n","a","m","e"," ","T","E","X","T",")",";">>, OutLines)

C4_Witness == Done /\ C4_NoCommentBefore /\ InLines = <<SetLine, CreateFoo>>

(***************************************************************************)
(* C5. The input "-- comment", newline, INSERT INTO t VALUES (1, TRUE);    *)
(* gives an output of exactly the line INSERT INTO t VALUES (1, 1);        *)
(***************************************************************************)
C5_CommentThenInsert ==
    (Done /\ InputIs(<<CommentLine, InsertTrue>>)) =>
       outfile.data = <<"I","N","S","E","R","T"," ","I","N","T","O"," ","t"," ","V","A","L","U","E","S"," ","(","1",","," ","1",")",";">>

C5_Witness == Done /\ InLines = <<CommentLine, InsertTrue>>

(***************************************************************************)
(* C6 as stated. A kept line has the letter case it had in the input: an   *)
(* output line that is an input line up to letter case is that input line. *)
(***************************************************************************)
C6_Original ==
    Done =>
       \A i \in 1..Len(OutLines) : \A j \in 1..Len(InLines) :
          UpperStr(OutLines[i]) = UpperStr(Strip(InLines[j]))
             => OutLines[i] = Strip(InLines[j])

(***************************************************************************)
(* C6 as amended. A line of the rewritten content that starts with an      *)
(* allowed keyword in any letter case is kept, and the filter writes it as *)
(* it is in the rewritten content; the rules, which match in any letter    *)
(* case, put their upper-case replacement in its place: the input          *)
(* create table t (a text); comes out as create table t (a TEXT); and      *)
(* insert into u values (false); as INSERT INTO u VALUES (0);              *)
(***************************************************************************)
C6_Amended ==
    Done =>
       /\ \A i \in 1..Len(Split(content)) :
             LET l == Strip(Split(content)[i])
             IN  (\E c \in 1..Len(AllowedKeywords) : StartsWith(UpperStr(l), AllowedKeywords[c]))
                    => IsIn(l, OutLines)
       /\ InputIs(<<LowerCreate>>) => outfile.data = <<"c","r","e","a","t","e"," ","t","a","b","l","e"," ","t"," ","(","a"," ","T","E","X","T",")",";">>
       /\ InputIs(<<LowerInsert>>) => outfile.data = <<"I","N","S","E","R","T"," ","I","N","T","O"," ","u"," ","V","A","L","U","E","S"," ","(","0",")",";">>

C6_Witness == Done /\ InLines = <<LowerCreate>> /\ outfile.data = <<"c","r","e","a","t","e"," ","t","a","b","l","e"," ","t"," ","(","a"," ","T","E","X","T",")",";">>

C7_FilterStep(t) == Join(FilterLines(t))

(***************************************************************************)
(* C7. The filter step, from a text to the text of the kept lines, gives   *)
(* its own result back when it is applied to its result: for the text as   *)
(* it is read, as the comment rule leaves it, and as the last rule does.   *)
(***************************************************************************)
C7_FilterIdempotent ==
    ((pc = "convert" /\ ruleIdx <= 2) \/ pc = "filter") =>
       LET once == C7_FilterStep(content)
       IN  C7_FilterStep(once) = once

\* the filter has run, and it kept a part of the content and dropped a part
C7_Witness ==
    /\ pc = "open"
    /\ sqlite_lines # <<>>
    /\ Join(sqlite_lines) # content
    /\ C7_FilterStep(content) = Join(sqlite_lines)

C8_Statements == {SetLine, SetvalLine}

C8_Emptied == [i \in 1..Len(InLines) |->
                 IF InLines[i] \in C8_Statements THEN <<>> ELSE InLines[i]]

(***************************************************************************)
(* C8. The lines SET statement_timeout = 0; and SELECT pg_catalog.setval(  *)
(* ...); give nothing to the output: an input of such lines alone gives an *)
(* empty output, no output line holds a word of theirs, and the output is  *)
(* the one the input gives with those lines emptied.                       *)
(***************************************************************************)
C8_StatementsLeaveNothing ==
    Done =>
       /\ (\A i \in 1..Len(InLines) : InLines[i] \in C8_Statements \cup {<<>>})
             => outfile.data = <<>>
       /\ \A i \in 1..Len(OutLines) :
             /\ ~Contains(OutLines[i], <<"s","t","a","t","e","m","e","n","t","_","t","i","m","e","o","u","t">>)
             /\ ~Contains(OutLines[i], <<"p","g","_","c","a","t","a","l","o","g">>)
             /\ ~Contains(OutLines[i], <<"s","e","t","v","a","l">>)
             /\ ~Contains(OutLines[i], <<"S","E","T"," ">>)
             /\ ~Contains(OutLines[i], <<"S","E","L","E","C","T"," ">>)
       /\ (\E i \in 1..Len(InLines) : InLines[i] \in C8_Statements)
             => outfile.data = Convert(Join(C8_Emptied))

\* a statement line after a line that is kept and whose comment joins the two
C8_Witness == Done /\ InLines = <<IndexThenComment, SetLine>> /\ outfile.data # <<>>

C9_NoCommentBefore ==
    \E i \in 1..Len(InLines) :
       /\ InLines[i] = CreateBig
       /\ \A j \in 1..(i - 1) : ~Contains(InLines[j], <<"-","-">>)

(***************************************************************************)
(* C9. The SERIAL rule comes before the BIGSERIAL rule; once it has been   *)
(* applied no SERIAL in any letter case is left in the content, so the     *)
(* BIGSERIAL rule leaves the content as it is; and the line                *)
(* CREATE TABLE b (n BIGSERIAL); comes out as                              *)
(* CREATE TABLE b (n BIGINTEGER); not as CREATE TABLE b (n INTEGER);       *)
(***************************************************************************)
C9_BigSerialShadowed ==
    /\ SerialRule < BigSerialRule
    /\ (pc = "convert" /\ ruleIdx = SerialRule + 1) =>
          ~Matches(conversions[SerialRule].pat, content)
    /\ (pc = "convert" /\ ruleIdx = BigSerialRule) =>
          ReSub(conversions[BigSerialRule], content) = content
    /\ (Done /\ C9_NoCommentBefore) =>
          /\ IsIn(<<"C","R","E","A","T","E"," ","T","A","B","L","E"," ","b"," ","(","n"," ","B","I","G","I","N","T","E","G","E","R",")",";">>, OutLines)
          /\ ~IsIn(<<"C","R","E","A","T","E"," ","T","A","B","L","E"," ","b"," ","(","n"," ","I","N","T","E","G","E","R",")",";">>, OutLines)

C9_Witness ==
    /\ pc = "convert" /\ ruleIdx = BigSerialRule
    /\ Contains(ReadText(infile), <<"B","I","G","S","E","R","I","A","L">>)
    /\ Contains(content, <<"B","I","G","I","N","T","E","G","E","R">>)

\* the text before the first "--" of a line that has one
C10_BeforeComment(l) ==
    SubSeq(l, 1, Least({i \in 1..Len(l) : StartsWith(SubSeq(l, i, Len(l)), <<"-","-">>)}) - 1)

\* line i of ls as the rule leaves it, with what is left of its newline
C10_Piece(ls, i) ==
    IF i < Len(ls) /\ Contains(ls[i], <<"-","-">>) THEN C10_BeforeComment(ls[i])
    ELSE ls[i] \o (IF i < Len(ls) THEN <<NL>> ELSE <<>>)

RECURSIVE C10_Pieces(_, _)
C10_Pieces(ls, i) == IF i > Len(ls) THEN <<>> ELSE C10_Piece(ls, i) \o C10_Pieces(ls, i + 1)

(***************************************************************************)
(* C10. The comment rule takes out each "--" up to and with the newline    *)
(* that ends its line, so the text before the "--" and the next line make  *)
(* one line; a "--" on a last line that no newline ends stays.  The next   *)
(* line comes out only within the joined line, when that line is kept.     *)
(***************************************************************************)
C10_CommentJoinsLines ==
    /\ (pc = "convert" /\ ruleIdx = 2) => content = C10_Pieces(InLines, 1)
    /\ (Done /\ InLines = <<IndexThenComment, CreateBig>>) =>
          outfile.data = <<"C","R","E","A","T","E"," ","I","N","D","E","X"," ","i"," ","O","N"," ","t"," ","(","a",")",";"," "," ","C","R","E","A","T","E"," ","T","A","B","L","E"," ","b"," ","(","n"," ","B","I","G","I","N","T","E","G","E","R",")",";">>
    /\ (Done /\ InLines = <<AlterThenComment, CreateBig>>) => outfile.data = <<>>
    /\ (Done /\ InLines = <<IndexThenComment>>) =>
          outfile.data = <<"C","R","E","A","T","E"," ","I","N","D","E","X"," ","i"," ","O","N"," ","t"," ","(","a",")",";"," "," ","-","-"," ","c">>
    \* two lines, the first with text before its comment: at most the joined
    \* line comes out, and it does when that text starts with a keyword
    /\ (/\ Done
        /\ Len(InLines) = 2
        /\ Contains(InLines[1], <<"-","-">>)
        /\ Strip(C10_BeforeComment(InLines[1])) # <<>>) =>
          LET a == Strip(C10_BeforeComment(InLines[1]))
          IN  IF \E c \in 1..Len(AllowedKeywords) : StartsWith(UpperStr(a), AllowedKeywords[c])
              THEN Len(OutLines) = 1 /\ StartsWith(OutLines[1], a)
              ELSE OutLines = <<>>

C10_Witness ==
    /\ Done
    /\ InLines = <<IndexThenComment, CreateBig>>
    /\ Len(OutLines) = 1

====
